---- MODULE Spec2Model ----
(***************************************************************************)
(* A model of the pairwise / dual-encoder training and evaluation code of  *)
(* experimaestro-ir (xpmir):                                               *)
(*   xpmir/letor/trainers/pairwise.py  losses, PairwiseTrainer             *)
(*   xpmir/neural/dual.py              Dense scorers, DualVectorListener   *)
(*   xpmir/text/adapters.py            MeanTextEncoder                     *)
(*   xpmir/evaluation.py               Evaluate, TrecEval                  *)
(*   xpmir/neural/splade.py            the SPLADE factories                *)
(*   xpmir/learning/base.py            Random, Sampler                     *)
(*                                                                         *)
(* The specifications share the module, one per component:                 *)
(*   Spec            the trainer (initialize, train_batch)                 *)
(*   SpecStep        the trainer with a FlopsRegularizer in its context    *)
(*   SpecLoss        the loss functions and the accuracy, as pure          *)
(*                   functions                                             *)
(*   SpecValidate    the life cycle of a Dense scorer (__validate__,       *)
(*                   _initialize, first scoring)                           *)
(*   SpecDual        Dense.score_pairs and its DualVectorListener hooks    *)
(*   SpecEval        Evaluate.execute and TrecEval.execute                 *)
(*   SpecLearner     the learner's epochs, checkpoints and restarts        *)
(*   SpecValidation  the validation listener and its best checkpoints      *)
(*   SpecSampling    Random and the samplers seeded from it                *)
(*   SpecEncode      the encoders a Dense applies to queries and documents *)
(*                   and distribute_models                                 *)
(*   SpecSplade      spladeV1 and spladeV2                                 *)
(* Every specification leaves the variables of the other components at     *)
(* their idle values.                                                      *)
(*                                                                         *)
(* Numbers.  Scores are IEEE floats in the code.  A value of the model is  *)
(* a record [k, n, d]: k = "fin" is the rational n/d (scores are given in  *)
(* tenths, so 0.3 is n = 3, d = 1 and the margin 1.0 is 10), k = "nan" is  *)
(* NaN, k = "inf" is the infinity of sign n.  Rounding is not modelled.    *)
(* The losses whose value is transcendental (softmax, cross entropy)       *)
(* return an uninterpreted finite scalar, k = "sym".                       *)
(***************************************************************************)
EXTENDS Integers, Sequences, FiniteSets, TLC

VARIABLES
    \* ---- loss functions as pure functions (SpecLoss)
    l_in,          \* the score matrix given to compute / acc
    l_margin,      \* HingeLoss.margin
    l_fn,          \* the function applied last ("none" before any)
    l_out,         \* what it returned or raised
    \* ---- PairwiseTrainer (Spec)
    tstate,        \* "uninitialized" | "initialized" | "exited"
    batch_size,    \* Trainer.batch_size
    lossfn,        \* the configured PairwiseLoss variant
    src_finite,    \* whether the sampler's record iterator ends
    src_len,       \* its number of records when it ends
    it_pos,        \* records consumed from train_iter_core so far
    calls,         \* train_batch calls made so far
    batches,       \* the batches yielded by train_iter, in order
    rel_scores,    \* the ranker's output in the last train_batch call
    loss_arg,      \* the matrix lossfn.compute got in the last call, or NoTensor
    ret,           \* what the last train_batch call returned or raised
    context,       \* the trainer's training context, as the last step left it
    early_calls,   \* train_batch calls made before initialize
    regularized,   \* whether a FlopsRegularizer is registered in the context
    grad_acc_batch, \* Trainer.grad_acc_batch (0: no gradient accumulation)
    \* ---- a Dense scorer and its training context (SpecValidate, SpecDual)
    scorer_class,  \* "Dense" | "CosineDense" | "DotDense"
    encoder,       \* Dense.encoder
    query_encoder, \* Dense.query_encoder, or NoEncoder
    py_optimize,   \* whether Python runs with -O, which drops assert statements
    sstate,        \* "configured" | "rejected" | "validated" | "initialized"
    verr,          \* the exception __validate__ raised, or "none"
    enc_inits,     \* the encoders initialized by _initialize, in order
    hooks,         \* the hooks registered in the training context, in order
    ctx,           \* the training context: [metrics_on, losses, metrics]
    lambda_q,      \* FlopsRegularizer.lambda_q
    lambda_d,      \* FlopsRegularizer.lambda_d
    sp_calls,      \* score_pairs calls made so far
    sp_args,       \* the arguments of the last score_pairs call
    sp_trace,      \* what the last score_pairs call did, in order
    sp_ret,        \* what it returned or raised
    \* ---- Evaluate.execute and TrecEval.execute (SpecEval)
    ev_task,       \* "Evaluate" | "TrecEval"
    ev_pc,         \* where execute is
    ev_calcs,      \* calls of metrics.calc made so far
    ev_topics,     \* dataset.topics.iter(): the query ids, in order
    ev_retrieved,  \* what retriever.retrieve returns for each query
    ev_qi,         \* the topic of the outer loop (0 before the first)
    ev_rank,       \* enumerate's counter in the inner loop
    run_file,      \* the file at run_path: [open, lines]
    ev_out,        \* the result files written: [measures, detailed]
    \* ---- the Learner's epoch loop around the trainer (SpecLearner)
    ln_pc,         \* "idle" | "start" (process started) | "loaded" | "failed"
    ln_epoch,      \* completed epochs, as the running process knows
    ln_step,       \* steps made in the current epoch
    ln_opt,        \* the optimizer state: the batches it has stepped on, in order
    ln_ckpt,       \* the last checkpoint persisted: [epoch, cursor, opt]
    ln_cursor,     \* the sampler's cursor: where its next record iterator starts
    ln_done,       \* the epochs completed, in order, over every process of the run
    ln_crashes,    \* the epoch boundaries at which the process crashed, in order
    ln_log,        \* what the last step of the loop did, in order
    \* ---- ValidationListener (SpecValidation)
    vl_metrics,    \* ValidationListener.metrics: metric name -> flag
    vl_round,      \* validation rounds made so far
    vl_last,       \* the metric values of the last round
    vl_best,       \* best[metric]: [set, v], set = FALSE before the first round
    vl_ckpt,       \* the round whose checkpoint is retained for each metric, or 0
    \* ---- Random and Sampler.initialize, in two runs (SpecSampling)
    sd_seed,       \* Random.seed, the same in both runs
    sd_gen,        \* the RandomState objects created: their states, by object id
    sd_cache,      \* per run, the object cached by Random.state, or 0
    sd_created,    \* per run, the number of RandomState objects built from the seed
    sd_views,      \* per run, the objects the accesses of Random.state returned
    sd_random,     \* per run, Sampler.random (an object id), or 0
    sd_records,    \* per run, the records the sampler has produced, in order
    sd_call,       \* per run, the Sampler.initialize call made: argument and outcome
    \* ---- the encoders of a Dense scorer at work (SpecEncode)
    dn_class,      \* "CosineDense" | "DotDense"
    dn_encoder,    \* Dense.encoder, a text encoder
    dn_query_encoder, \* Dense.query_encoder, a text encoder or NoTextEncoder
    dn_log,        \* the encodings made and the dimensions reported, in order
    dn_models,     \* per encoder object, how often update was applied to its model
    dn_dist,       \* "none" before distribute_models, then "ok" or its exception
    \* ---- the SPLADE factories (SpecSplade)
    sv_fn,         \* the factory called last: "none" | "spladeV1" | "spladeV2"
    sv_args,       \* the arguments it was called with
    sv_ret         \* the (scorer, regularizer) pair it returned

lossVars == <<l_in, l_margin, l_fn, l_out>>
trainerVars == <<tstate, batch_size, lossfn, src_finite, src_len, it_pos, calls,
                 batches, rel_scores, loss_arg, ret, context, early_calls,
                 regularized, grad_acc_batch>>
scorerVars == <<scorer_class, encoder, query_encoder, py_optimize, sstate, verr,
                enc_inits>>
callVars == <<hooks, ctx, lambda_q, lambda_d, sp_calls, sp_args, sp_trace, sp_ret>>
dualVars == <<scorerVars, callVars>>
evalVars == <<ev_task, ev_pc, ev_calcs, ev_topics, ev_retrieved, ev_qi, ev_rank,
              run_file, ev_out>>
learnerVars == <<ln_pc, ln_epoch, ln_step, ln_opt, ln_ckpt, ln_cursor, ln_done,
                 ln_crashes, ln_log>>
validationVars == <<vl_metrics, vl_round, vl_last, vl_best, vl_ckpt>>
samplingVars == <<sd_seed, sd_gen, sd_cache, sd_created, sd_views, sd_random,
    sd_records, sd_call>>
encodeVars == <<dn_class, dn_encoder, dn_query_encoder, dn_log, dn_models,
    dn_dist>>
spladeVars == <<sv_fn, sv_args, sv_ret>>
vars == <<lossVars, trainerVars, dualVars, evalVars, learnerVars,
    validationVars, samplingVars, encodeVars, spladeVars>>

\* what the actions of one component leave unchanged: the other components
offLoss == <<trainerVars, dualVars, evalVars, learnerVars, validationVars,
    samplingVars, encodeVars, spladeVars>>
offTrainer == <<lossVars, dualVars, evalVars, learnerVars, validationVars,
    samplingVars, encodeVars, spladeVars>>
offDual == <<lossVars, trainerVars, evalVars, learnerVars, validationVars,
    samplingVars, encodeVars, spladeVars>>
offEval == <<lossVars, trainerVars, dualVars, learnerVars, validationVars,
    samplingVars, encodeVars, spladeVars>>
offLearner == <<lossVars, dualVars, evalVars, validationVars, samplingVars,
    encodeVars, spladeVars>>
offValidation == <<lossVars, trainerVars, dualVars, evalVars, learnerVars,
    samplingVars, encodeVars, spladeVars>>
offSampling == <<lossVars, trainerVars, dualVars, evalVars, learnerVars,
    validationVars, encodeVars, spladeVars>>
offEncode == <<lossVars, trainerVars, dualVars, evalVars, learnerVars,
    validationVars, samplingVars, spladeVars>>
offSplade == <<lossVars, trainerVars, dualVars, evalVars, learnerVars,
    validationVars, samplingVars, encodeVars>>

---------------------------------------------------------------------------
(* Bounds of the model *)
MaxRows == 2        \* rows of a score matrix given to a loss directly
MaxWidth == 3       \* columns of such a matrix (1 positive + negatives)
MaxBatch == 2       \* largest batch_size
MaxRecords == 3     \* longest finite record source
MaxSteps == 3       \* train_batch calls per run
MaxEarly == 2       \* train_batch calls made before initialize
MaxEpoch == 2       \* Learner.max_epoch
StepsPerEpoch == 2  \* Learner.steps_per_epoch
MaxCrashes == 2     \* crashes of the learning process in one run
MaxRounds == 3      \* validation rounds of a run
MaxAccess == 2      \* accesses of Random.state in one run
MaxDraws == 3       \* records drawn from a sampler in one run
MaxWrap == 1        \* MeanTextEncoder wrappers around a base encoder
MaxHooks == 2       \* hooks registered in a training context
MaxCalls == 2       \* score_pairs calls per run
MaxTopics == 2      \* topics of the evaluated dataset
MaxDocs == 2        \* documents retrieved for one query
MaxEncodes == 2      \* encodings and dimension reads per scorer

---------------------------------------------------------------------------
(* Float values *)
Fin(v) == [k |-> "fin", n |-> v, d |-> 1]
Frac(a, b) == [k |-> "fin", n |-> a, d |-> b]
NaN == [k |-> "nan", n |-> 0, d |-> 1]
PosInf == [k |-> "inf", n |-> 1, d |-> 1]
NegInf == [k |-> "inf", n |-> -1, d |-> 1]
Sym(name) == [k |-> "sym", n |-> 0, d |-> 1, name |-> name]
NoValue == [k |-> "none", n |-> 0, d |-> 1]

\* torch.isnan / torch.isinf, elementwise
IsNan(x) == x.k = "nan"
IsInf(x) == x.k = "inf"

\* float negation and addition of element values (d = 1)
FNeg(x) == IF x.k = "fin" THEN Fin(-x.n)
           ELSE IF x.k = "inf" THEN [x EXCEPT !.n = -x.n]
           ELSE x
FAdd(x, y) ==
    IF IsNan(x) \/ IsNan(y) THEN NaN
    ELSE IF IsInf(x) THEN (IF IsInf(y) /\ y.n # x.n THEN NaN ELSE x)
    ELSE IF IsInf(y) THEN y
    ELSE Fin(x.n + y.n)
\* x > y on floats: false as soon as one side is NaN
FGt(x, y) ==
    IF IsNan(x) \/ IsNan(y) THEN FALSE
    ELSE IF IsInf(x) THEN x.n = 1 /\ ~(IsInf(y) /\ y.n = 1)
    ELSE IF IsInf(y) THEN y.n = -1
    ELSE x.n > y.n
\* F.relu
Relu(x) ==
    IF x.k = "fin" THEN (IF x.n > 0 THEN x ELSE Fin(0))
    ELSE IF IsInf(x) /\ x.n = -1 THEN Fin(0)
    ELSE x

RECURSIVE FSum(_)
FSum(s) == IF s = <<>> THEN Fin(0) ELSE FAdd(Head(s), FSum(Tail(s)))

\* Tensor.mean() over every element: NaN for an empty tensor (0/0)
Mean(s) ==
    IF Len(s) = 0 THEN NaN
    ELSE LET t == FSum(s) IN IF t.k = "fin" THEN Frac(t.n, Len(s)) ELSE t

---------------------------------------------------------------------------
(* Tensors: a shape and the elements in row-major order *)
Tensor(shape, data) == [shape |-> shape, data |-> data]
NoTensor == [shape |-> <<0>>, data |-> <<>>]
Ndim(t) == Len(t.shape)

\* t[:, a-1:b] of a 2-D tensor (columns a..b, 1-based, b >= a - 1)
Cols(t, a, b) ==
    LET w == b - a + 1
        W == t.shape[2]
        N == t.shape[1]
    IN Tensor(<<N, w>>,
              [e \in 1..(N * w) |->
                  t.data[((e - 1) \div w) * W + (a - 1) + ((e - 1) % w) + 1]])

\* the row (1-based) of element e of a row-major (N,w) tensor: the element of a
\* (N,1) tensor that broadcasting pairs with it
BroadcastRow(e, w) == ((e - 1) \div w) + 1

\* Tensor.reshape(rows, cols): the same elements, an error unless the count fits
Reshape(t, rows, cols) ==
    IF rows * cols = Len(t.data)
    THEN [ok |-> TRUE, t |-> Tensor(<<rows, cols>>, t.data)]
    ELSE [ok |-> FALSE, t |-> NoTensor]

---------------------------------------------------------------------------
(* The loss functions.  A call returns [kind, value]: kind "ok" with the   *)
(* scalar, or the exception raised.                                        *)
Returned(v) == [kind |-> "ok", value |-> v]
Raised(e) == [kind |-> e, value |-> NoValue]

\* HingeLoss.margin: Param[float] = 1.0
DefaultMargin == Fin(10)

LossNames == {"CrossEntropyLoss", "NogueiraCrossEntropyLoss", "SoftmaxLoss",
              "HingeLoss", "pointwise"}

\* Tensor.log_softmax(dim) / F.softmax(dim): dim must be a dimension of t
DimInRange(t, dim) == dim >= -Ndim(t) /\ dim <= Ndim(t) - 1

\* CrossEntropyLoss.compute: F.cross_entropy(scores, zeros(shape[0])) of a
\* (N, C) matrix against N labels 0
CrossEntropy_compute(t) == Returned(Sym("cross_entropy"))

\* NogueiraCrossEntropyLoss.compute: log_softmax(dim=2), then [:, 0, 0] + [:, 1, 1]
Nogueira_compute(t) ==
    IF ~DimInRange(t, 2) THEN Raised("IndexError")
    ELSE Returned(Sym("nogueira"))

\* SoftmaxLoss.compute: mean(1 - softmax(scores, dim=1)[:, 0])
Softmax_compute(t) ==
    IF ~DimInRange(t, 1) THEN Raised("IndexError")
    ELSE Returned(Sym("softmax"))

\* a faulty variant: the hinge term without the relu
HingeTerm_NoRelu(margin, pos, neg) == FAdd(FAdd(margin, FNeg(pos)), neg)

\* relu(margin - scores[:, :1] + scores[:, 1:]), elementwise with broadcast
HingeTerm(margin, pos, neg) == Relu(FAdd(FAdd(margin, FNeg(pos)), neg))

\* HingeLoss.compute
Hinge_compute(t, margin) ==
    LET pos == Cols(t, 1, 1)
        neg == Cols(t, 2, t.shape[2])
        w == neg.shape[2]
        terms == [e \in 1..Len(neg.data) |->
                     HingeTerm(margin, pos.data[BroadcastRow(e, w)], neg.data[e])]
    IN Returned(Mean(terms))

\* pointwise.compute: the same body as NogueiraCrossEntropyLoss.compute
Pointwise_compute(t) ==
    IF ~DimInRange(t, 2) THEN Raised("IndexError")
    ELSE Returned(Sym("nogueira"))

\* lossfn.compute(scores), dispatched on the configured variant
Loss_compute(fn, t, margin) ==
    CASE fn = "CrossEntropyLoss" -> CrossEntropy_compute(t)
      [] fn = "NogueiraCrossEntropyLoss" -> Nogueira_compute(t)
      [] fn = "SoftmaxLoss" -> Softmax_compute(t)
      [] fn = "HingeLoss" -> Hinge_compute(t, margin)
      [] fn = "pointwise" -> Pointwise_compute(t)

\* a faulty variant: >= in place of >
AccGreater_OrEqual(p, q) == FGt(p, q) \/ (p.k = "fin" /\ q.k = "fin" /\ p.n = q.n)

\* scores[:, :1] > scores[:, 1:]
AccGreater(p, q) == FGt(p, q)

\* PairwiseTrainer.acc: (scores[:, :1] > scores[:, 1:]).sum().float() / count
Acc(t) ==
    LET count == t.shape[1] * (t.shape[2] - 1)
        pos == Cols(t, 1, 1)
        neg == Cols(t, 2, t.shape[2])
        w == neg.shape[2]
        gt == [e \in 1..Len(neg.data) |->
                  IF AccGreater(pos.data[BroadcastRow(e, w)], neg.data[e])
                  THEN Fin(1) ELSE Fin(0)]
        total == FSum(gt)
    IN IF count = 0 THEN NaN ELSE Frac(total.n, count)

---------------------------------------------------------------------------
(* Idle values of each component, for the specifications of the others *)
NoCall == [kind |-> "none", value |-> NoValue]

LossIdle ==
    /\ l_in = NoTensor
    /\ l_margin = DefaultMargin
    /\ l_fn = "none"
    /\ l_out = NoCall

EmptyContext(m) == [metrics_on |-> m, losses |-> <<>>, metrics |-> <<>>]

NoMetrics == [loss |-> NoValue, acc |-> NoValue]
NoReturn == [kind |-> "none", loss |-> NoValue, metrics |-> NoMetrics]

TrainerIdle ==
    /\ tstate = "idle"
    /\ batch_size = 1
    /\ lossfn = "SoftmaxLoss"
    /\ src_finite = FALSE
    /\ src_len = 0
    /\ it_pos = 0
    /\ calls = 0
    /\ batches = <<>>
    /\ rel_scores = NoTensor
    /\ loss_arg = NoTensor
    /\ ret = NoReturn
    /\ context = EmptyContext(TRUE)
    /\ early_calls = 0
    /\ regularized = FALSE
    /\ grad_acc_batch = 0

Encoder(static, depth) == [defined |-> TRUE, static |-> static, depth |-> depth]
NoEncoder == [defined |-> FALSE, static |-> FALSE, depth |-> 0]
NoArgs == [queries |-> <<>>, documents |-> <<>>, info |-> FALSE,
           before |-> EmptyContext(TRUE)]
NoScores == [kind |-> "none", scores |-> <<>>]

DualIdle ==
    /\ scorer_class = "Dense"
    /\ encoder = Encoder(FALSE, 0)
    /\ query_encoder = NoEncoder
    /\ py_optimize = FALSE
    /\ sstate = "idle"
    /\ verr = "none"
    /\ enc_inits = <<>>
    /\ hooks = <<>>
    /\ ctx = EmptyContext(TRUE)
    /\ lambda_q = 1
    /\ lambda_d = 1
    /\ sp_calls = 0
    /\ sp_args = NoArgs
    /\ sp_trace = <<>>
    /\ sp_ret = NoScores

NoFile == [open |-> FALSE, lines |-> <<>>]
NoResults == [measures |-> FALSE, detailed |-> FALSE]

EvalIdle ==
    /\ ev_task = "Evaluate"
    /\ ev_pc = "idle"
    /\ ev_calcs = 0
    /\ ev_topics = <<>>
    /\ ev_retrieved = <<>>
    /\ ev_qi = 0
    /\ ev_rank = 0
    /\ run_file = NoFile
    /\ ev_out = NoResults

NoCheckpoint == [epoch |-> 0, cursor |-> 0, opt |-> <<>>]

LearnerIdle ==
    /\ ln_pc = "idle"
    /\ ln_epoch = 0
    /\ ln_step = 0
    /\ ln_opt = <<>>
    /\ ln_ckpt = NoCheckpoint
    /\ ln_cursor = 0
    /\ ln_done = <<>>
    /\ ln_crashes = <<>>
    /\ ln_log = <<>>

NoBest == [set |-> FALSE, v |-> 0]

ValidationIdle ==
    /\ vl_metrics = <<>>
    /\ vl_round = 0
    /\ vl_last = <<>>
    /\ vl_best = <<>>
    /\ vl_ckpt = <<>>

Runs == {1, 2}

\* no Sampler.initialize call yet
NoInitialize == [called |-> FALSE, arg |-> 0, err |-> "none"]

SamplingIdle ==
    /\ sd_seed = 0
    /\ sd_gen = <<>>
    /\ sd_cache = [r \in Runs |-> 0]
    /\ sd_created = [r \in Runs |-> 0]
    /\ sd_views = [r \in Runs |-> <<>>]
    /\ sd_random = [r \in Runs |-> 0]
    /\ sd_records = [r \in Runs |-> <<>>]
    /\ sd_call = [r \in Runs |-> NoInitialize]

\* a text encoder: an object with a dimension; None has neither
TextEncoder(id, dimension) == [id |-> id, dimension |-> dimension]
NoTextEncoder == [id |-> "None", dimension |-> 0]
TextEncoders == {TextEncoder(id, dm) : id \in {"a", "b"}, dm \in {2, 3}}

\* no encoder's model has been through update
Untouched == [enc \in TextEncoders |-> 0]

EncodeIdle ==
    /\ dn_class = "DotDense"
    /\ dn_encoder = TextEncoder("a", 2)
    /\ dn_query_encoder = NoTextEncoder
    /\ dn_log = <<>>
    /\ dn_models = Untouched
    /\ dn_dist = "none"

NoPair == [scorer |-> "none", regularizer |-> "none"]

SpladeIdle ==
    /\ sv_fn = "none"
    /\ sv_args = <<>>
    /\ sv_ret = NoPair

\* the components a specification does not use are idle
IdleButLoss == TrainerIdle /\ DualIdle /\ EvalIdle /\ LearnerIdle /\
    ValidationIdle /\ SamplingIdle /\ EncodeIdle /\ SpladeIdle
IdleButTrainer == LossIdle /\ DualIdle /\ EvalIdle /\ LearnerIdle /\
    ValidationIdle /\ SamplingIdle /\ EncodeIdle /\ SpladeIdle
IdleButDual == LossIdle /\ TrainerIdle /\ EvalIdle /\ LearnerIdle /\
    ValidationIdle /\ SamplingIdle /\ EncodeIdle /\ SpladeIdle
IdleButEval == LossIdle /\ TrainerIdle /\ DualIdle /\ LearnerIdle /\
    ValidationIdle /\ SamplingIdle /\ EncodeIdle /\ SpladeIdle
IdleButLearner == LossIdle /\ DualIdle /\ EvalIdle /\ ValidationIdle /\
    SamplingIdle /\ EncodeIdle /\ SpladeIdle
IdleButValidation == LossIdle /\ TrainerIdle /\ DualIdle /\ EvalIdle /\
    LearnerIdle /\ SamplingIdle /\ EncodeIdle /\ SpladeIdle
IdleButSampling == LossIdle /\ TrainerIdle /\ DualIdle /\ EvalIdle /\
    LearnerIdle /\ ValidationIdle /\ EncodeIdle /\ SpladeIdle
IdleButEncode == LossIdle /\ TrainerIdle /\ DualIdle /\ EvalIdle /\
    LearnerIdle /\ ValidationIdle /\ SamplingIdle /\ SpladeIdle
IdleButSplade == LossIdle /\ TrainerIdle /\ DualIdle /\ EvalIdle /\
    LearnerIdle /\ ValidationIdle /\ SamplingIdle /\ EncodeIdle

---------------------------------------------------------------------------
(* The training context and FlopsRegularizer.  A batch of vectors is a     *)
(* sequence of rows, a row a sequence of integers.  What the regularizer   *)
(* computes from them is a rational Frac(n, d), kept unreduced; lambda_q   *)
(* and lambda_d are integers.                                              *)

\* assert cond, msg: AssertionError when cond is false, nothing under python -O
AssertStmt(cond) == IF ~py_optimize /\ ~cond THEN "AssertionError" ELSE "none"

\* the encoded (queries, documents) a caller passes to score_pairs
EncodedPairs ==
    { [queries |-> <<(<<1, 0>>)>>, documents |-> <<(<<2, 1>>)>>],
      [queries |-> <<(<<1, 2>>), (<<0, 1>>)>>, documents |-> <<(<<2, 1>>), (<<1, 1>>)>>],
      [queries |-> <<(<<0, 0>>), (<<1, 1>>)>>, documents |-> <<(<<1, 2>>), (<<1, 2>>)>>] }

Abs(v) == IF v < 0 THEN -v ELSE v

\* x.abs().sum(0)[j]: the sum of |x[i][j]| over the rows i
RECURSIVE AbsColSum(_, _)
AbsColSum(x, j) == IF x = <<>> THEN 0 ELSE Abs(Head(x)[j]) + AbsColSum(Tail(x), j)

\* sum of the squares of AbsColSum over the columns 1..j
RECURSIVE SumSquares(_, _)
SumSquares(x, j) ==
    IF j = 0 THEN 0 ELSE AbsColSum(x, j) * AbsColSum(x, j) + SumSquares(x, j - 1)

\* FlopsRegularizer.compute(x)[1]: y = x.abs().mean(0); (y * y).sum()
Flops_compute(x) ==
    IF Len(x) = 0 THEN NaN
    ELSE Frac(SumSquares(x, Len(x[1])), Len(x) * Len(x))

\* l * x and x + y on rationals
RScale(l, x) == IF x.k = "fin" THEN Frac(l * x.n, x.d) ELSE x
RAdd(x, y) ==
    IF x.k = "fin" /\ y.k = "fin" THEN Frac(x.n * y.d + y.n * x.d, x.d * y.d)
    ELSE NaN

\* (x != 0).sum().item() / (x.shape[0] * x.shape[1])
RECURSIVE NonZeros(_)
NonZeros(x) ==
    IF x = <<>> THEN 0
    ELSE Cardinality({j \in 1..Len(Head(x)) : Head(x)[j] # 0}) + NonZeros(Tail(x))

Sparsity(x) == Frac(NonZeros(x), Len(x) * Len(x[1]))

Loss(name, value, weight) == [name |-> name, value |-> value, weight |-> weight]
ScalarMetric(name, value, count) == [name |-> name, value |-> value, count |-> count]

\* the values of lambda_q and lambda_d
Lambdas == {0, 1, 2}

\* flops = self.lambda_d * flops_d + self.lambda_q * flops_q
FlopsTerm(flops_q, flops_d) ==
    RAdd(RScale(lambda_d, flops_d), RScale(lambda_q, flops_q))

\* FlopsRegularizer.__call__(info, queries, documents) on the context c: the
\* assert on info.metrics, add_loss, then the five metrics.add.  With the assert
\* dropped and info.metrics None, the first info.metrics.add raises
\* AttributeError, after add_loss.
Flops_call(c, queries, documents) ==
    IF AssertStmt(c.metrics_on) # "none"
    THEN [err |-> "AssertionError", ctx |-> c]
    ELSE LET flops_q == Flops_compute(queries)
             flops_d == Flops_compute(documents)
             flops == FlopsTerm(flops_q, flops_d)
             dim_q == Len(queries[1])
             dim_d == Len(documents[1])
             withLoss == [c EXCEPT !.losses = Append(@, Loss("flops", flops, 1))]
         IN IF ~c.metrics_on THEN [err |-> "AttributeError", ctx |-> withLoss]
            ELSE [err |-> "none",
                  ctx |-> [withLoss EXCEPT !.metrics = @ \o
                      << ScalarMetric("flops", flops, dim_q),
                         ScalarMetric("flops_q", flops_q, dim_q),
                         ScalarMetric("flops_d", flops_d, dim_d),
                         ScalarMetric("sparsity_q", Sparsity(queries), dim_q),
                         ScalarMetric("sparsity_d", Sparsity(documents), dim_d) >>]]

---------------------------------------------------------------------------
(* SpecLoss: the losses and the accuracy applied to score matrices of at   *)
(* least one row and one negative column, with finite scores (train_batch  *)
(* lets no other score reach them).                                        *)
LossScores == {Fin(3), Fin(9)}
Margins == {Fin(10), Fin(6), Fin(0)}

ScoreMatrices ==
    UNION {{Tensor(<<N, W>>, data) : data \in [1..(N * W) -> LossScores]} :
              <<N, W>> \in (1..MaxRows) \X (2..MaxWidth)}

InitLoss ==
    /\ l_in \in ScoreMatrices
    /\ l_margin \in Margins
    /\ l_fn = "none"
    /\ l_out = NoCall
    /\ IdleButLoss

\* lossfn.compute(l_in) for one of the five variants
LossCall(fn) ==
    /\ l_fn' = fn
    /\ l_out' = Loss_compute(fn, l_in, l_margin)
    /\ UNCHANGED <<l_in, l_margin, offLoss>>

\* PairwiseTrainer.acc(l_in)
AccCall ==
    /\ l_fn' = "acc"
    /\ l_out' = Returned(Acc(l_in))
    /\ UNCHANGED <<l_in, l_margin, offLoss>>

NextLoss == (\E fn \in LossNames : LossCall(fn)) \/ AccCall

SpecLoss == InitLoss /\ [][NextLoss]_vars

---------------------------------------------------------------------------
(* Spec: PairwiseTrainer.  The sampler's pairwiserecord_iter() is a record  *)
(* iterator; record number i of its sequence is modelled by the number i.  *)
(* The iterator either never ends or ends after src_len records.           *)

\* whether next(it) yields a record when p records have been consumed
HasNext(p) == ~src_finite \/ p < src_len

\* a faulty variant: zip(it, range(batch_size)): the record iterator is advanced before the
\* range, so the record that ends the zip is consumed and lost
RECURSIVE ZipItFirst(_, _, _)
ZipItFirst(i, batch, p) ==
    IF ~HasNext(p) THEN [batch |-> batch, pos |-> p]
    ELSE IF i >= batch_size THEN [batch |-> batch, pos |-> p + 1]
    ELSE ZipItFirst(i + 1, Append(batch, p + 1), p + 1)

IterBatchesNext_ItFirst(p) == ZipItFirst(0, <<>>, p)

\* for _, record in zip(range(self.batch_size), it): batch.add(record)
\* zip advances range first: when the range is exhausted, it is not touched
RECURSIVE ZipRangeIt(_, _, _)
ZipRangeIt(i, batch, p) ==
    IF i >= batch_size THEN [batch |-> batch, pos |-> p]
    ELSE IF ~HasNext(p) THEN [batch |-> batch, pos |-> p]
    ELSE ZipRangeIt(i + 1, Append(batch, p + 1), p + 1)

\* one turn of the loop of iter_batches, from cursor p: the batch yielded and the
\* cursor after it.  The generator never ends: an exhausted source yields empty
\* batches.
IterBatchesNext(p) == ZipRangeIt(0, <<>>, p)

\* What the ranker can return for one record: (positive score, negative score)
RankerPairs == {<<Fin(9), Fin(3)>>, <<Fin(3), Fin(9)>>, <<Fin(3), Fin(3)>>,
                <<NaN, Fin(3)>>, <<Fin(3), PosInf>>, <<NegInf, Fin(9)>>}

\* self.ranker(input_data): two scores per record of the batch, as a flat tensor
RankerOutputs(m) ==
    {Tensor(<<2 * m>>, [e \in 1..(2 * m) |-> f[((e - 1) \div 2) + 1][((e - 1) % 2) + 1]]) :
        f \in [1..m -> RankerPairs]}

\* a faulty variant: the guard without the isinf test
NonFiniteGuard_NanOnly(t) == \E e \in 1..Len(t.data) : IsNan(t.data[e])

\* torch.isnan(rel_scores).any() or torch.isinf(rel_scores).any()
NonFiniteGuard(t) ==
    \/ \E e \in 1..Len(t.data) : IsNan(t.data[e])
    \/ \E e \in 1..Len(t.data) : IsInf(t.data[e])

SystemExit1 == [kind |-> "SystemExit(1)", loss |-> NoValue, metrics |-> NoMetrics]
Propagated(e) == [kind |-> e, loss |-> NoValue, metrics |-> NoMetrics]

\* the body of train_batch after the ranker returned sc: the guard, the reshape,
\* the loss and the metrics
TrainBatchBody(sc) ==
    IF NonFiniteGuard(sc) THEN [ret |-> SystemExit1, loss_arg |-> NoTensor]
    ELSE LET r == Reshape(sc, batch_size, 2)
         IN IF ~r.ok THEN [ret |-> Propagated("RuntimeError"), loss_arg |-> NoTensor]
            ELSE LET l == Loss_compute(lossfn, r.t, DefaultMargin)
                 IN IF l.kind # "ok"
                    THEN [ret |-> Propagated(l.kind), loss_arg |-> r.t]
                    ELSE [ret |-> [kind |-> "ok", loss |-> l.value,
                                   metrics |-> [loss |-> l.value, acc |-> Acc(r.t)]],
                          loss_arg |-> r.t]

InitTrainer ==
    /\ tstate = "uninitialized"
    /\ batch_size \in 1..MaxBatch
    /\ lossfn \in LossNames
    /\ src_finite \in BOOLEAN
    /\ src_len \in (IF src_finite THEN 0..MaxRecords ELSE {0})
    /\ it_pos = 0
    /\ calls = 0
    /\ batches = <<>>
    /\ rel_scores = NoTensor
    /\ loss_arg = NoTensor
    /\ ret = NoReturn
    /\ context = EmptyContext(TRUE)
    /\ early_calls = 0
    /\ regularized = FALSE
    /\ grad_acc_batch = 0
    /\ IdleButTrainer

\* self.sampler.pairwiserecord_iter(): a new iterator over the sampler's records,
\* which starts at the sampler's cursor (0 unless a cursor was restored)
Sampler_pairwiserecord_iter == ln_cursor

\* a faulty variant: train_iter exists from construction
TrainIterBound_Always == TRUE

\* whether self.train_iter exists: initialize is the only place that assigns it
TrainIterBound == tstate # "uninitialized"

\* PairwiseTrainer.initialize: a fresh record iterator, wrapped by iter_batches
initialize ==
    /\ tstate = "uninitialized"
    /\ ln_pc \in {"idle", "loaded"}
    /\ tstate' = "initialized"
    /\ it_pos' = Sampler_pairwiserecord_iter
    /\ UNCHANGED <<batch_size, lossfn, src_finite, src_len, calls, batches,
                   rel_scores, loss_arg, ret, context, early_calls, regularized,
                   grad_acc_batch, offTrainer>>

\* What the step's hooks leave in the training context while the ranker scores
\* the batch: the context starts the step with no loss, and a FlopsRegularizer
\* registered in it, if any, is called once on the encoded batch.
RankerHooks(qd) ==
    IF regularized
    THEN Flops_call(EmptyContext(TRUE), qd.queries, qd.documents).ctx
    ELSE EmptyContext(TRUE)

\* PairwiseTrainer.train_batch.  sys.exit(1) ends the process; any other
\* exception propagates to the caller.
train_batch ==
    /\ TrainIterBound
    /\ tstate # "exited"
    /\ calls < MaxSteps
    /\ context' \in {RankerHooks(qd) : qd \in EncodedPairs}
    /\ LET nb == IterBatchesNext(it_pos)
       IN \E sc \in RankerOutputs(Len(nb.batch)) :
            LET out == TrainBatchBody(sc)
            IN /\ it_pos' = nb.pos
               /\ batches' = Append(batches, nb.batch)
               /\ calls' = calls + 1
               /\ rel_scores' = sc
               /\ loss_arg' = out.loss_arg
               /\ ret' = out.ret
               /\ tstate' = IF out.ret.kind = "SystemExit(1)" THEN "exited" ELSE tstate
    /\ UNCHANGED <<batch_size, lossfn, src_finite, src_len, early_calls, regularized,
                   grad_acc_batch, offTrainer>>

\* train_batch on a trainer that has no train_iter: next(self.train_iter), the
\* first statement, raises AttributeError
train_batch_early ==
    /\ ~TrainIterBound
    /\ early_calls < MaxEarly
    /\ early_calls' = early_calls + 1
    /\ ret' = Propagated("AttributeError")
    /\ UNCHANGED <<tstate, batch_size, lossfn, src_finite, src_len, it_pos, calls,
                   batches, rel_scores, loss_arg, context, regularized,
                   grad_acc_batch, offTrainer>>

Next == initialize \/ train_batch \/ train_batch_early

Spec == InitTrainer /\ [][Next]_vars

\* SpecStep: the trainer with or without a FlopsRegularizer registered in its
\* training context, on a sampler whose records do not end
InitStep ==
    /\ tstate = "uninitialized"
    /\ batch_size \in 1..MaxBatch
    /\ lossfn \in {"SoftmaxLoss", "HingeLoss"}
    /\ src_finite = FALSE
    /\ src_len = 0
    /\ it_pos = 0
    /\ calls = 0
    /\ batches = <<>>
    /\ rel_scores = NoTensor
    /\ loss_arg = NoTensor
    /\ ret = NoReturn
    /\ context = EmptyContext(TRUE)
    /\ early_calls = 0
    /\ regularized \in BOOLEAN
    /\ grad_acc_batch = 0
    /\ IdleButTrainer

SpecStep == InitStep /\ [][Next]_vars

---------------------------------------------------------------------------
(* Claims about the trainer *)
HasNonFinite(t) == \E e \in 1..Len(t.data) : t.data[e].k \in {"nan", "inf"}

\* C1: in every train_batch call in which a relevance score returned by the ranker
\* is NaN or infinite, the run is aborted at once: the loss function is not
\* invoked on those scores, train_batch returns no loss and no metrics, and
\* nothing runs afterwards (the batch is not retried).
C1_NonFiniteScoresAbort ==
    (calls > 0 /\ HasNonFinite(rel_scores)) =>
        /\ tstate = "exited"
        /\ ret.kind = "SystemExit(1)"
        /\ ret.loss = NoValue
        /\ ret.metrics = NoMetrics
        /\ loss_arg = NoTensor
        /\ Len(batches) = calls
        /\ ~ENABLED Next

\* a second batch was scored with an infinite score (and no NaN), after a first
\* batch that trained normally
C1_Witness ==
    /\ calls = 2
    /\ tstate = "exited"
    /\ \E e \in 1..Len(rel_scores.data) : rel_scores.data[e].k = "inf"
    /\ \A e \in 1..Len(rel_scores.data) : rel_scores.data[e].k # "nan"

\* the records of batch k: those of records (k-1)*batch_size+1 .. k*batch_size that
\* the record sequence has
C5_Expected(k) ==
    LET lo == (k - 1) * batch_size + 1
        hi == IF src_finite /\ src_len < k * batch_size THEN src_len ELSE k * batch_size
    IN [j \in 1..(IF hi >= lo THEN hi - lo + 1 ELSE 0) |-> lo + j - 1]

RECURSIVE C5_Batched(_)
C5_Batched(bs) == IF bs = <<>> THEN 0 ELSE Len(Head(bs)) + C5_Batched(Tail(bs))

\* C5: after initialize, every train_batch call pulls exactly one batch, and the
\* k-th batch holds records (k-1)*batch_size+1 .. k*batch_size of the sampler's
\* record sequence in their order: no record is skipped, repeated or reordered.
C5_BatchesChunkTheRecords ==
    /\ Len(batches) = calls
    /\ \A k \in 1..Len(batches) : batches[k] = C5_Expected(k)
    /\ it_pos = C5_Batched(batches)

\* three batches of two records were pulled from a source that does not end
C5_Witness ==
    /\ calls = 3
    /\ batch_size = 2
    /\ ~src_finite
    /\ batches = <<(<<1, 2>>), (<<3, 4>>), (<<5, 6>>)>>

\* C6 (the claim as stated): every batch yielded by iter_batches, hence scored by
\* train_batch, holds exactly batch_size records, also when the source is finite.
C6_EveryBatchIsFull ==
    \A k \in 1..Len(batches) : Len(batches[k]) = batch_size

\* C10 (the claim as stated): every PairwiseLoss variant accepts the
\* (batch_size, 2) matrix train_batch passes to lossfn.compute and returns a scalar.
C10_EveryLossAcceptsTheMatrix ==
    (loss_arg # NoTensor) =>
        /\ loss_arg.shape = <<batch_size, 2>>
        /\ ret.kind = "ok"
        /\ ret.loss.k \in {"fin", "sym"}

\* the sum of weight * value over the losses registered in a context
RECURSIVE C11_AuxSum(_)
C11_AuxSum(ls) ==
    IF ls = <<>> THEN Frac(0, 1)
    ELSE RAdd(RScale(Head(ls).weight, Head(ls).value), C11_AuxSum(Tail(ls)))

\* main + aux: main itself when aux is zero, and a distinct value otherwise
C11_Plus(main, aux) ==
    IF aux.k = "fin" /\ aux.n = 0 THEN main
    ELSE [k |-> "sum", main |-> main, aux |-> aux]

\* C11 (the claim as stated): the loss train_batch returns is the sum of the main
\* pairwise loss and of every auxiliary loss the hooks registered in the training
\* context during the step, and the metrics it reports contain the loss, the
\* accuracy and each auxiliary metric of the step.
C11_ReturnsMainPlusAuxiliary ==
    (calls > 0 /\ ret.kind = "ok") =>
        LET main == Loss_compute(lossfn, loss_arg, DefaultMargin).value
        IN /\ ret.loss = C11_Plus(main, C11_AuxSum(context.losses))
           /\ {"loss", "acc"} \subseteq DOMAIN ret.metrics
           /\ \A i \in 1..Len(context.metrics) :
                 context.metrics[i].name \in DOMAIN ret.metrics

\* C12: no training step runs in the Uninitialized state: a train_batch call made
\* before initialize fails without pulling a batch from the sampler and without
\* invoking the scorer, and every train_batch call after initialize finds the
\* batch iterator bound to the sampler (it pulls one batch).
C12_NoStepBeforeInitialize ==
    /\ tstate = "uninitialized" =>
          /\ calls = 0
          /\ batches = <<>>
          /\ it_pos = 0
          /\ rel_scores = NoTensor
          /\ loss_arg = NoTensor
          /\ early_calls > 0 => (ret.kind = "AttributeError" /\ ret.loss = NoValue)
    /\ calls > 0 =>
          /\ tstate \in {"initialized", "exited"}
          /\ ret.kind # "AttributeError"
          /\ Len(batches) = calls

\* train_batch was called before initialize and failed; after initialize, a call
\* pulled the first batch and returned a loss
C12_Witness ==
    /\ early_calls > 0
    /\ tstate = "initialized"
    /\ calls = 1
    /\ ret.kind = "ok"
    /\ batches = <<C5_Expected(1)>>
    /\ Len(batches[1]) = batch_size

---------------------------------------------------------------------------
(* Claims about the pure functions *)
At(t, i, j) == t.data[(i - 1) * t.shape[2] + j]
NegPairs(t) == (1..t.shape[1]) \X (2..t.shape[2])

\* C7: acc returns (number of (positive, negative) pairs with positive strictly
\* greater than negative) / (rows x negatives); a tie counts as incorrect; the
\* result lies in [0, 1].
C7_AccIsStrictFraction ==
    l_fn = "acc" =>
        LET good == {p \in NegPairs(l_in) :
                        At(l_in, p[1], 1).n > At(l_in, p[1], p[2]).n}
        IN /\ l_out.kind = "ok"
           /\ l_out.value = Frac(Cardinality(good), Cardinality(NegPairs(l_in)))
           /\ l_out.value.n >= 0
           /\ l_out.value.n <= l_out.value.d

\* acc was applied to a matrix with two negatives per row, holding a tie, a
\* correct pair and an incorrect pair
C7_Witness ==
    /\ l_fn = "acc"
    /\ l_in.shape[2] = 3
    /\ \E p \in NegPairs(l_in) : At(l_in, p[1], 1) = At(l_in, p[1], p[2])
    /\ \E p \in NegPairs(l_in) : At(l_in, p[1], 1).n > At(l_in, p[1], p[2]).n
    /\ \E p \in NegPairs(l_in) : At(l_in, p[1], 1).n < At(l_in, p[1], p[2]).n

C8_Term(t, m, p) ==
    LET x == m.n - At(t, p[1], 1).n + At(t, p[1], p[2]).n
    IN IF x > 0 THEN x ELSE 0

RECURSIVE C8_Sum(_, _, _)
C8_Sum(t, m, P) ==
    IF P = {} THEN 0
    ELSE LET p == CHOOSE q \in P : TRUE
         IN C8_Term(t, m, p) + C8_Sum(t, m, P \ {p})

\* C8: HingeLoss.compute returns the mean over every (row, negative) pair of
\* max(0, margin - positive + negative), the positive being column 0; it is never
\* negative, it is zero exactly when every positive exceeds every negative of its
\* row by at least the margin, and it is 1.6 for margin 1.0, positive 0.3,
\* negative 0.9.
C8_HingeIsMeanOfRelu ==
    l_fn = "HingeLoss" =>
        /\ l_out.kind = "ok"
        /\ l_out.value = Frac(C8_Sum(l_in, l_margin, NegPairs(l_in)),
                              Cardinality(NegPairs(l_in)))
        /\ l_out.value.n >= 0
        /\ (l_out.value.n = 0) <=>
               (\A p \in NegPairs(l_in) :
                   At(l_in, p[1], 1).n - At(l_in, p[1], p[2]).n >= l_margin.n)
        /\ (l_in = Tensor(<<1, 2>>, <<Fin(3), Fin(9)>>) /\ l_margin = Fin(10))
               => l_out.value = Frac(16, 1)

\* the hinge loss of the spec's scenario (margin 1.0, scores 0.3 and 0.9) was
\* computed
C8_Witness ==
    /\ l_fn = "HingeLoss"
    /\ l_in = Tensor(<<1, 2>>, <<Fin(3), Fin(9)>>)
    /\ l_margin = Fin(10)

---------------------------------------------------------------------------
(* The Dense scorers.  An encoder is a base text encoder, whose static()   *)
(* is encoder.static, under encoder.depth MeanTextEncoder wrappers.        *)
(* The order validate -> initialize -> score is the configuration          *)
(* framework's (experimaestro): an object is validated when it is sealed,  *)
(* and a configuration that fails validation is never instantiated.        *)

ScorerClasses == {"Dense", "CosineDense", "DotDense"}
Encoders == {Encoder(st, dp) : st \in BOOLEAN, dp \in 0..MaxWrap}

\* a faulty variant: a MeanTextEncoder that reports itself learnable whatever it wraps
Static_WrapperNeverStatic(enc) == enc.depth = 0 /\ enc.static

\* encoder.static(); MeanTextEncoder.static returns self.encoder.static()
RECURSIVE StaticOf(_)
StaticOf(enc) ==
    IF enc.depth = 0 THEN enc.static
    ELSE StaticOf([enc EXCEPT !.depth = enc.depth - 1])

Static(enc) == StaticOf(enc)

\* Dense.__validate__; DotDense.__validate__ runs it and asserts the same again
Dense_validate(cls) ==
    LET first == AssertStmt(~Static(encoder))
    IN IF first # "none" THEN first
       ELSE IF cls = "DotDense" THEN AssertStmt(~Static(encoder))
       ELSE "none"

\* __validate__, run by the framework when the configuration is sealed
Validate ==
    /\ sstate = "configured"
    /\ verr' = Dense_validate(scorer_class)
    /\ sstate' = IF verr' = "none" THEN "validated" ELSE "rejected"
    /\ UNCHANGED <<scorer_class, encoder, query_encoder, py_optimize, enc_inits,
                   callVars, offDual>>

\* Dense._initialize
Initialize ==
    /\ sstate = "validated"
    /\ sstate' = "initialized"
    /\ enc_inits' = IF query_encoder.defined
                    THEN <<"encoder", "query_encoder">> ELSE <<"encoder">>
    /\ UNCHANGED <<scorer_class, encoder, query_encoder, py_optimize, verr,
                   callVars, offDual>>

---------------------------------------------------------------------------
(* Dense.score_pairs and the hooks.  A batch of vectors is a sequence of   *)
(* rows, a row a sequence of numbers.  The hooks of a context:             *)
(*   "listener"  a DualVectorListener subclass whose __call__ returns      *)
(*   "base"      DualVectorListener itself: __call__ raises                *)
(*               NotImplementedError                                       *)
(*   "flops"     FlopsRegularizer                                          *)
(*   "other"     a TrainingHook that is no DualVectorListener              *)
HookKinds == {"listener", "base", "flops", "other"}
DualVectorListeners == {"listener", "base", "flops"}

RECURSIVE SeqsUpTo(_, _)
SeqsUpTo(S, n) ==
    IF n = 0 THEN {<<>>}
    ELSE LET shorter == SeqsUpTo(S, n - 1)
         IN shorter \cup {Append(q, x) : q \in shorter, x \in S}

RECURSIVE Dot(_, _)
Dot(u, v) == IF u = <<>> THEN 0 ELSE Head(u) * Head(v) + Dot(Tail(u), Tail(v))

\* (queries.unsqueeze(1) @ documents.unsqueeze(2)).squeeze(-1).squeeze(-1)
PairScores(queries, documents) ==
    [i \in 1..Len(queries) |-> Dot(queries[i], documents[i])]

\* info.hooks(DualVectorListener): the positions, in registration order, of the
\* registered hooks that are DualVectorListeners
HooksOfType(registry, kinds) ==
    LET pick[i \in 0..Len(registry)] ==
            IF i = 0 THEN <<>>
            ELSE IF registry[i] \in kinds THEN Append(pick[i - 1], i)
            ELSE pick[i - 1]
    IN pick[Len(registry)]

\* hook(info, queries, documents) for a hook of the given kind
Hook_call(kind, c, queries, documents) ==
    CASE kind = "base" -> [err |-> "NotImplementedError", ctx |-> c]
      [] kind = "flops" -> Flops_call(c, queries, documents)
      [] OTHER -> [err |-> "none", ctx |-> c]

HookEvent(i, queries, documents) ==
    [ev |-> "hook", hook |-> i, queries |-> queries, documents |-> documents]
Event(e) == [ev |-> e, hook |-> 0, queries |-> <<>>, documents |-> <<>>]

\* foreach(selected, lambda hook: hook(info, queries, documents)): the hooks are
\* called one after the other; an exception ends the loop and propagates
RECURSIVE Foreach(_, _, _, _, _)
Foreach(selected, queries, documents, c, log) ==
    IF selected = <<>> THEN [err |-> "none", ctx |-> c, log |-> log]
    ELSE LET i == Head(selected)
             r == Hook_call(hooks[i], c, queries, documents)
             log2 == Append(log, HookEvent(i, queries, documents))
         IN IF r.err # "none" THEN [err |-> r.err, ctx |-> r.ctx, log |-> log2]
            ELSE Foreach(Tail(selected), queries, documents, r.ctx, log2)

NoHooksRun(c) == [err |-> "none", ctx |-> c, log |-> <<>>]

\* a faulty variant: the hooks get (documents, queries)
Dense_score_pairs_Swapped(queries, documents, info, c) ==
    LET scores == PairScores(queries, documents)
        run == IF info
               THEN Foreach(HooksOfType(hooks, DualVectorListeners),
                            documents, queries, c, <<>>)
               ELSE NoHooksRun(c)
    IN [ret |-> IF run.err = "none" THEN [kind |-> "ok", scores |-> scores]
                ELSE [kind |-> run.err, scores |-> <<>>],
        trace |-> <<Event("scores")>> \o run.log
                  \o <<Event(IF run.err = "none" THEN "return" ELSE "raise")>>,
        ctx |-> run.ctx]

\* a faulty variant: a hook's exception is caught: the remaining hooks are skipped and the
\* scores returned
Dense_score_pairs_Swallow(queries, documents, info, c) ==
    LET scores == PairScores(queries, documents)
        run == IF info
               THEN Foreach(HooksOfType(hooks, DualVectorListeners),
                            queries, documents, c, <<>>)
               ELSE NoHooksRun(c)
    IN [ret |-> [kind |-> "ok", scores |-> scores],
        trace |-> <<Event("scores")>> \o run.log \o <<Event("return")>>,
        ctx |-> run.ctx]

\* Dense.score_pairs(queries, documents, info); info is the context c or None
Dense_score_pairs(queries, documents, info, c) ==
    LET scores == PairScores(queries, documents)
        run == IF info
               THEN Foreach(HooksOfType(hooks, DualVectorListeners),
                            queries, documents, c, <<>>)
               ELSE NoHooksRun(c)
    IN [ret |-> IF run.err = "none" THEN [kind |-> "ok", scores |-> scores]
                ELSE [kind |-> run.err, scores |-> <<>>],
        trace |-> <<Event("scores")>> \o run.log
                  \o <<Event(IF run.err = "none" THEN "return" ELSE "raise")>>,
        ctx |-> run.ctx]

\* a call of score_pairs on an initialized scorer
ScorePairs ==
    /\ sstate = "initialized"
    /\ sp_calls < MaxCalls
    /\ \E qd \in EncodedPairs, info \in BOOLEAN :
         LET out == Dense_score_pairs(qd.queries, qd.documents, info, ctx)
         IN /\ sp_args' = [queries |-> qd.queries, documents |-> qd.documents,
                           info |-> info, before |-> ctx]
            /\ sp_trace' = out.trace
            /\ sp_ret' = out.ret
            /\ ctx' = out.ctx
    /\ sp_calls' = sp_calls + 1
    /\ UNCHANGED <<scorerVars, hooks, lambda_q, lambda_d, offDual>>

\* SpecValidate: a scorer from its configuration to its first scoring calls
InitValidate ==
    /\ scorer_class \in ScorerClasses
    /\ encoder \in Encoders
    /\ query_encoder \in Encoders \cup {NoEncoder}
    /\ py_optimize \in BOOLEAN
    /\ sstate = "configured"
    /\ verr = "none"
    /\ enc_inits = <<>>
    /\ hooks = <<>>
    /\ ctx = EmptyContext(TRUE)
    /\ lambda_q = 1
    /\ lambda_d = 1
    /\ sp_calls = 0
    /\ sp_args = NoArgs
    /\ sp_trace = <<>>
    /\ sp_ret = NoScores
    /\ IdleButDual

NextValidate == Validate \/ Initialize \/ ScorePairs

SpecValidate == InitValidate /\ [][NextValidate]_vars

\* SpecDual: score_pairs on an initialized scorer, in a training context with any
\* registered hooks
InitDual ==
    /\ scorer_class \in ScorerClasses
    /\ encoder = Encoder(FALSE, 0)
    /\ query_encoder = NoEncoder
    /\ py_optimize \in BOOLEAN
    /\ sstate = "initialized"
    /\ verr = "none"
    /\ enc_inits = <<"encoder">>
    /\ hooks \in SeqsUpTo(HookKinds, MaxHooks)
    /\ ctx \in {EmptyContext(m) : m \in BOOLEAN}
    /\ lambda_q \in Lambdas
    /\ lambda_d \in Lambdas
    /\ sp_calls = 0
    /\ sp_args = NoArgs
    /\ sp_trace = <<>>
    /\ sp_ret = NoScores
    /\ IdleButDual

NextDual == ScorePairs

SpecDual == InitDual /\ [][NextDual]_vars

---------------------------------------------------------------------------
(* Claims about the scorers *)
\* the base encoder under the wrappers is frozen
C2_Frozen(enc) == enc.static

C3_Listeners ==
    LET S == {i \in 1..Len(hooks) : hooks[i] \in DualVectorListeners}
    IN CHOOSE q \in [1..Cardinality(S) -> S] :
          \A a, b \in 1..Cardinality(S) : a < b => q[a] < q[b]

C3_Dots(qs, ds) ==
    [i \in 1..Len(qs) |->
        qs[i][1] * ds[i][1] + qs[i][2] * ds[i][2]]

\* C3: a score_pairs call made with a training context that returns has computed
\* the scores first, then invoked every registered DualVectorListener hook exactly
\* once, in registration order, each with the query and document vectors that
\* were scored, and then returned the scores.
C3_HooksOncePerCallInOrder ==
    (sp_calls > 0 /\ sp_args.info /\ sp_ret.kind = "ok") =>
        /\ sp_ret.scores = C3_Dots(sp_args.queries, sp_args.documents)
        /\ sp_trace = <<Event("scores")>>
                      \o [j \in 1..Len(C3_Listeners) |->
                             HookEvent(C3_Listeners[j], sp_args.queries,
                                       sp_args.documents)]
                      \o <<Event("return")>>

\* a second call with a context returned after two DualVectorListener hooks ran,
\* a FlopsRegularizer among them
C3_Witness ==
    /\ sp_calls = 2
    /\ sp_args.info
    /\ sp_ret.kind = "ok"
    /\ Len(C3_Listeners) = 2
    /\ \E i \in 1..Len(hooks) : hooks[i] = "flops"
    /\ Len(sp_args.queries) = 2

\* whether a hook of this kind raises in the context
C4_Fails(kind) == kind = "base" \/ (kind = "flops" /\ ~ctx.metrics_on)
C4_Failing == {j \in 1..Len(C3_Listeners) : C4_Fails(hooks[C3_Listeners[j]])}

\* C4: when a DualVectorListener hook raises during score_pairs, the exception
\* propagates out of score_pairs: no scores are returned, and the hooks
\* registered after the failing one are not invoked.
C4_HookFailurePropagates ==
    (sp_calls > 0 /\ sp_args.info /\ C4_Failing # {}) =>
        LET first == CHOOSE j \in C4_Failing : \A o \in C4_Failing : j <= o
        IN /\ sp_ret.kind \in {"NotImplementedError", "AssertionError", "AttributeError"}
           /\ sp_ret.kind = "NotImplementedError" <=> hooks[C3_Listeners[first]] = "base"
           /\ sp_ret.scores = <<>>
           /\ sp_trace = <<Event("scores")>>
                         \o [j \in 1..first |->
                                HookEvent(C3_Listeners[j], sp_args.queries,
                                          sp_args.documents)]
                         \o <<Event("raise")>>

\* the first of two DualVectorListener hooks raised: the second was not invoked
C4_Witness ==
    /\ sp_calls > 0
    /\ sp_args.info
    /\ Len(C3_Listeners) = 2
    /\ C4_Fails(hooks[C3_Listeners[1]])
    /\ hooks[C3_Listeners[2]] = "listener"
    /\ sp_ret.kind = "NotImplementedError"

---------------------------------------------------------------------------
(* SpecEval: Evaluate.execute.  The dataset's topics are a sequence of     *)
(* query ids; retriever.retrieve gives each query a ranked list of scored  *)
(* documents.  A line of the run file is the sequence of its               *)
(* space-separated fields; ids hold no space.                              *)
QueryIds == {"q1", "q2"}
ScoredDocs == { [docid |-> "d1", score |-> 12], [docid |-> "d2", score |-> 5],
                [docid |-> "d2", score |-> 12] }

\* a faulty variant: enumerate's 0-based counter written as the rank
RunLine_ZeroBased(qid, rank, sd) ==
    <<qid, "Q0", sd.docid, ToString(rank), ToString(sd.score), "run">>

\* f"{qid} Q0 {sd.docid} {rank+1} {sd.score} run\n"
RunLine(qid, rank, sd) ==
    <<qid, "Q0", sd.docid, ToString(rank + 1), ToString(sd.score), "run">>

\* Evaluate runs its retriever on the topics of its dataset; TrecEval is given
\* the run file, which it only reads
InitEval ==
    /\ ev_task \in {"Evaluate", "TrecEval"}
    /\ ev_pc = "start"
    /\ ev_calcs = 0
    /\ ev_topics \in (IF ev_task = "Evaluate"
                      THEN SeqsUpTo(QueryIds, MaxTopics) ELSE {<<>>})
    /\ ev_retrieved \in (IF ev_task = "Evaluate"
                         THEN [QueryIds -> SeqsUpTo(ScoredDocs, MaxDocs)]
                         ELSE {[q \in QueryIds |-> <<>>]})
    /\ ev_qi = 0
    /\ ev_rank = 0
    /\ run_file = NoFile
    /\ ev_out = NoResults
    /\ IdleButEval

\* the documents retrieved for the topic of the outer loop
CurrentDocs == IF ev_qi = 0 THEN <<>> ELSE ev_retrieved[ev_topics[ev_qi]]

\* self.retriever.initialize(); with self.run_path.open("w") as fp
EvalOpen ==
    /\ ev_task = "Evaluate"
    /\ ev_pc = "start"
    /\ ev_pc' = "writing"
    /\ run_file' = [open |-> TRUE, lines |-> <<>>]
    /\ ev_qi' = 0
    /\ ev_rank' = 0
    /\ UNCHANGED <<ev_task, ev_calcs, ev_topics, ev_retrieved, ev_out, offEval>>

\* for qid, query in self.dataset.topics.iter(): the next topic, its retrieval,
\* and a fresh enumerate
EvalNextTopic ==
    /\ ev_pc = "writing"
    /\ ev_rank = Len(CurrentDocs)
    /\ ev_qi < Len(ev_topics)
    /\ ev_qi' = ev_qi + 1
    /\ ev_rank' = 0
    /\ UNCHANGED <<ev_task, ev_calcs, ev_pc, ev_topics, ev_retrieved, run_file, ev_out,
                   offEval>>

\* for rank, sd in enumerate(self.retriever.retrieve(query)): fp.write(...)
EvalWrite ==
    /\ ev_pc = "writing"
    /\ ev_rank < Len(CurrentDocs)
    /\ run_file' = [run_file EXCEPT !.lines =
                       Append(@, RunLine(ev_topics[ev_qi], ev_rank,
                                         CurrentDocs[ev_rank + 1]))]
    /\ ev_rank' = ev_rank + 1
    /\ UNCHANGED <<ev_task, ev_calcs, ev_pc, ev_topics, ev_retrieved, ev_qi, ev_out,
                   offEval>>

\* the end of the with block: the run file is closed
EvalClose ==
    /\ ev_pc = "writing"
    /\ ev_rank = Len(CurrentDocs)
    /\ ev_qi = Len(ev_topics)
    /\ run_file' = [run_file EXCEPT !.open = FALSE]
    /\ ev_pc' = "written"
    /\ UNCHANGED <<ev_task, ev_calcs, ev_topics, ev_retrieved, ev_qi, ev_rank, ev_out,
                   offEval>>

\* a faulty variant: a failed metric computation is attempted again
OnCalcFailure_Retry(before) == before

\* where execute is after metrics.calc or metrics.mean raised, having been at
\* `before`: no try statement surrounds them, the exception leaves execute
OnCalcFailure(before) == "failed"

\* metrics.calc and metrics.mean on the run file: they return, or raise
EvalCalc ==
    /\ ev_task = "Evaluate"
    /\ ev_pc = "written"
    /\ ev_calcs' = ev_calcs + 1
    /\ ev_pc' \in {"calculated", OnCalcFailure(ev_pc)}
    /\ UNCHANGED <<ev_task, ev_topics, ev_retrieved, ev_qi, ev_rank, run_file, ev_out,
                   offEval>>

\* Evaluate: the measures file, then the detailed file; TrecEval: the detailed
\* file, then the aggregated file (ev_out.measures)
EvalWriteResults ==
    /\ ev_pc = "calculated"
    /\ ev_out' = [measures |-> TRUE, detailed |-> TRUE]
    /\ ev_pc' = "done"
    /\ UNCHANGED <<ev_task, ev_calcs, ev_topics, ev_retrieved, ev_qi, ev_rank, run_file,
                   offEval>>

\* TrecEval.execute: metrics.calc and metrics.mean on the given run file
TrecEvalCalc ==
    /\ ev_task = "TrecEval"
    /\ ev_pc = "start"
    /\ ev_calcs' = ev_calcs + 1
    /\ ev_pc' \in {"calculated", OnCalcFailure(ev_pc)}
    /\ UNCHANGED <<ev_task, ev_topics, ev_retrieved, ev_qi, ev_rank, run_file, ev_out,
                   offEval>>

NextEval ==
    \/ EvalOpen \/ EvalNextTopic \/ EvalWrite \/ EvalClose \/ EvalCalc
    \/ TrecEvalCalc \/ EvalWriteResults

SpecEval == InitEval /\ [][NextEval]_vars

---------------------------------------------------------------------------
(* Claims about the evaluation *)
RECURSIVE C9_Before(_)
\* the number of documents retrieved for the topics before topic k
C9_Before(k) ==
    IF k <= 1 THEN 0
    ELSE C9_Before(k - 1) + Len(ev_retrieved[ev_topics[k - 1]])

\* C9: Evaluate.execute writes the run file with exactly one line per document
\* the retriever returned, queries in topic order and documents in retrieval
\* order; within a query the rank field is 1, 2, ..., k, restarting at 1 for each
\* query; a line has the six fields query id, Q0, document id, rank, score, run tag.
C9_RunFileLines ==
    (ev_pc \notin {"start", "writing"}) =>
        /\ ~run_file.open
        /\ Len(run_file.lines) = C9_Before(Len(ev_topics) + 1)
        /\ \A k \in 1..Len(ev_topics) :
             \A j \in 1..Len(ev_retrieved[ev_topics[k]]) :
                LET line == run_file.lines[C9_Before(k) + j]
                    sd == ev_retrieved[ev_topics[k]][j]
                IN /\ Len(line) = 6
                   /\ line[1] = ev_topics[k]
                   /\ line[2] = "Q0"
                   /\ line[3] = sd.docid
                   /\ line[4] = ToString(j)
                   /\ line[5] = ToString(sd.score)
                   /\ line[6] = "run"

\* a run file of four lines was written for two topics of two documents each: the
\* rank restarts at 1 on the third line
C9_Witness ==
    /\ ev_pc = "written"
    /\ Len(ev_topics) = 2
    /\ Len(run_file.lines) = 4
    /\ run_file.lines[2][4] = "2"
    /\ run_file.lines[3][4] = "1"
    /\ run_file.lines[3][1] = ev_topics[2]

\* C17: in Evaluate.execute and in TrecEval.execute the metric computation is
\* invoked exactly once, in Evaluate only after the run file has been written
\* completely and closed; when it fails, the failure leaves execute: nothing is
\* tried again and neither result file is written.
C17_CalcOnceAndFailurePropagates ==
    /\ ev_calcs <= 1
    /\ ev_calcs = 1 <=> ev_pc \in {"calculated", "failed", "done"}
    /\ (ev_task = "Evaluate" /\ ev_calcs > 0) =>
          /\ ~run_file.open
          /\ Len(run_file.lines) = C9_Before(Len(ev_topics) + 1)
    /\ ev_pc = "failed" => (ev_out = NoResults /\ ~ENABLED NextEval)
    /\ ev_out # NoResults => (ev_pc = "done" /\ ev_calcs = 1)

\* the metric computation of an Evaluate task failed on a run file of three lines
C17_Witness ==
    /\ ev_task = "Evaluate"
    /\ ev_pc = "failed"
    /\ Len(run_file.lines) = 3
    /\ ev_calcs = 1

---------------------------------------------------------------------------
(* SpecLearner: the Learner's epoch loop around the trainer, with crashes  *)
(* of the process at epoch boundaries.  The loop, the checkpoint and the   *)
(* sampler's cursor follow the design (the Learner and the samplers are     *)
(* outside the modelled sources); initialize and iter_batches are the       *)
(* trainer's.  A checkpoint holds the epoch number, the sampler's cursor    *)
(* and the optimizer state; the optimizer state is the sequence of batches  *)
(* on which an optimizer step was made.                                     *)

\* the ranker calls of train_batch on a batch: rel_scores = self.ranker(input_data),
\* one call on the whole batch, whatever grad_acc_batch
RankerCalls(batch) == << [ev |-> "score", records |-> batch] >>

\* the optimizer step the loop applies after train_batch has returned the loss
OptimizerStep == [ev |-> "optimizer_step", records |-> <<>>]

InitLearner ==
    /\ tstate = "uninitialized"
    /\ batch_size \in 1..MaxBatch
    /\ lossfn = "SoftmaxLoss"
    /\ src_finite \in BOOLEAN
    /\ src_len \in (IF src_finite THEN 0..MaxRecords ELSE {0})
    /\ it_pos = 0
    /\ calls = 0
    /\ batches = <<>>
    /\ rel_scores = NoTensor
    /\ loss_arg = NoTensor
    /\ ret = NoReturn
    /\ context = EmptyContext(TRUE)
    /\ early_calls = 0
    /\ regularized = FALSE
    /\ grad_acc_batch \in 0..MaxBatch
    /\ ln_pc = "start"
    /\ ln_epoch = 0
    /\ ln_step = 0
    /\ ln_opt = <<>>
    /\ ln_ckpt = NoCheckpoint
    /\ ln_cursor = 0
    /\ ln_done = <<>>
    /\ ln_crashes = <<>>
    /\ ln_log = <<>>
    /\ IdleButLearner

\* a process starts: it loads the last checkpoint (none in a first start) and
\* restores the epoch, the optimizer state and the sampler's cursor
LearnerLoad ==
    /\ ln_pc = "start"
    /\ ln_pc' = "loaded"
    /\ ln_epoch' = ln_ckpt.epoch
    /\ ln_opt' = ln_ckpt.opt
    /\ ln_cursor' = ln_ckpt.cursor
    /\ UNCHANGED <<ln_step, ln_ckpt, ln_done, ln_crashes, ln_log, trainerVars,
                   offLearner>>

\* one step of the current epoch: a train_batch call that pulls the next batch
\* and scores it with finite scores.  On a full batch it returns the loss, and
\* the loop applies the optimizer step; on a short batch
\* rel_scores.reshape(self.batch_size, 2) raises and the run fails.
LearnerStep ==
    /\ ln_pc = "loaded"
    /\ TrainIterBound
    /\ ln_epoch < MaxEpoch
    /\ ln_step < StepsPerEpoch
    /\ LET nb == IterBatchesNext(it_pos)
           pulled == <<[ev |-> "batch", records |-> nb.batch]>>
       IN /\ it_pos' = nb.pos
          /\ IF 2 * Len(nb.batch) = batch_size * 2
             THEN /\ ln_opt' = Append(ln_opt, nb.batch)
                  /\ ln_log' = pulled \o RankerCalls(nb.batch) \o <<OptimizerStep>>
                  /\ ln_step' = ln_step + 1
                  /\ ln_pc' = ln_pc
             ELSE /\ ln_log' = pulled \o RankerCalls(nb.batch)
                  /\ ln_pc' = "failed"
                  /\ UNCHANGED <<ln_opt, ln_step>>
    /\ UNCHANGED <<tstate, batch_size, lossfn, src_finite, src_len, calls, batches,
                   rel_scores, loss_arg, ret, context, early_calls, regularized,
                   grad_acc_batch, ln_epoch, ln_ckpt, ln_cursor, ln_done,
                   ln_crashes, offLearner>>

\* the end of an epoch: the epoch is counted and the checkpoint persisted, with
\* the cursor the sampler's iterator has reached
LearnerEpochEnd ==
    /\ ln_pc = "loaded"
    /\ ln_step = StepsPerEpoch
    /\ ln_epoch' = ln_epoch + 1
    /\ ln_step' = 0
    /\ ln_ckpt' = [epoch |-> ln_epoch + 1, cursor |-> it_pos, opt |-> ln_opt]
    /\ ln_done' = Append(ln_done, ln_epoch + 1)
    /\ UNCHANGED <<ln_pc, ln_opt, ln_cursor, ln_crashes, ln_log, trainerVars,
                   offLearner>>

\* the process dies at an epoch boundary and is started again: what it held in
\* memory is lost (the trainer's iterators, the optimizer, the epoch counter),
\* the checkpoint stays
LearnerCrash ==
    /\ ln_pc = "loaded"
    /\ ln_step = 0
    /\ Len(ln_crashes) < MaxCrashes
    /\ ln_pc' = "start"
    /\ tstate' = "uninitialized"
    /\ it_pos' = 0
    /\ ln_epoch' = 0
    /\ ln_opt' = <<>>
    /\ ln_cursor' = 0
    /\ ln_crashes' = Append(ln_crashes, ln_epoch)
    /\ ln_log' = <<>>
    /\ UNCHANGED <<batch_size, lossfn, src_finite, src_len, calls, batches,
                   rel_scores, loss_arg, ret, context, early_calls, regularized,
                   grad_acc_batch, ln_step, ln_ckpt, ln_done, offLearner>>

NextLearner ==
    LearnerLoad \/ initialize \/ LearnerStep \/ LearnerEpochEnd \/ LearnerCrash

SpecLearner == InitLearner /\ [][NextLearner]_vars

\* the cursor and the optimizer state after k steps of a run without crash
RECURSIVE C13_Run(_)
C13_Run(k) ==
    IF k = 0 THEN [cursor |-> 0, opt |-> <<>>]
    ELSE LET prev == C13_Run(k - 1)
             nb == IterBatchesNext(prev.cursor)
         IN [cursor |-> nb.pos, opt |-> Append(prev.opt, nb.batch)]

\* the last record of the batches bs, 0 if they hold none
RECURSIVE C13_LastRecord(_)
C13_LastRecord(bs) ==
    IF bs = <<>> THEN 0
    ELSE LET b == bs[Len(bs)]
         IN IF b # <<>> THEN b[Len(b)] ELSE C13_LastRecord(SubSeq(bs, 1, Len(bs) - 1))

---------------------------------------------------------------------------
(* SpecValidation: the best-metric bookkeeping of a ValidationListener,    *)
(* configured as the two experiments configure it.  The listener itself is *)
(* outside the modelled sources: a round computes every configured metric, *)
(* and for each metric compares the value with the best seen, under the    *)
(* metric's flag; on improvement it retains the checkpoint of the round    *)
(* and updates best[metric].  Metric values are in tenths.                 *)

\* metrics={"mrr@10": True, "map": False}
MsmarcoMetrics == [n \in {"mrr@10", "map"} |-> n = "mrr@10"]
\* metrics={"RR@10": True, "AP": False, "nDCG": False}
MonobertMetrics == [n \in {"RR@10", "AP", "nDCG"} |-> n = "RR@10"]

MetricValues == {2, 5, 7}

\* a faulty variant: the value of the latest round is always retained
Improves_Latest(maximize, v, best) == TRUE

\* whether value v improves on the best seen, for a metric with this flag
Improves(maximize, v, best) ==
    \/ ~best.set
    \/ IF maximize THEN v > best.v ELSE v < best.v

InitValidation ==
    /\ vl_metrics \in {MsmarcoMetrics, MonobertMetrics}
    /\ vl_round = 0
    /\ vl_last = [m \in DOMAIN vl_metrics |-> 0]
    /\ vl_best = [m \in DOMAIN vl_metrics |-> NoBest]
    /\ vl_ckpt = [m \in DOMAIN vl_metrics |-> 0]
    /\ IdleButValidation

\* one validation round, with the values the metric computation returns
ValidationRound ==
    /\ vl_round < MaxRounds
    /\ vl_round' = vl_round + 1
    /\ vl_last' \in [DOMAIN vl_metrics -> MetricValues]
    /\ vl_best' = [m \in DOMAIN vl_metrics |->
                      IF Improves(vl_metrics[m], vl_last'[m], vl_best[m])
                      THEN [set |-> TRUE, v |-> vl_last'[m]] ELSE vl_best[m]]
    /\ vl_ckpt' = [m \in DOMAIN vl_metrics |->
                      IF Improves(vl_metrics[m], vl_last'[m], vl_best[m])
                      THEN vl_round' ELSE vl_ckpt[m]]
    /\ UNCHANGED <<vl_metrics, offValidation>>

NextValidation == ValidationRound

SpecValidation == InitValidation /\ [][NextValidation]_vars

\* v is strictly better than the best seen b under the flag
C14_Better(maximize, v, b) == IF maximize THEN v > b ELSE v < b

---------------------------------------------------------------------------
(* SpecSampling: two runs of the same program, each of which builds a      *)
(* Random with the same seed, reads Random.state and initializes a Sampler *)
(* with it.  A RandomState is an object with a state; the pseudo-random    *)
(* generator is a congruential generator on 0..7, seeded with seed mod 8.  *)
(* The concrete samplers are outside the modelled sources: a sampler       *)
(* produces its next record from a draw of Sampler.random.                 *)

Seeds == {0, 1, 6}
None == 0

\* np.random.RandomState(seed): the state of a generator just seeded
RandomState(seed) == seed % 8

\* one draw: the state after it, which is also the value drawn
Draw(state) == (5 * state + 3) % 8

\* a faulty variant: Random.state as a plain property, a new generator at each access
Random_state_Uncached(cached) == None

\* @cached_property state: the object cached by an earlier access, if any
Random_state(cached) == cached

\* Sampler.initialize(random):
\* self.random = random or np.random.RandomState(random.randint(0, 2**31))
Sampler_initialize(random) ==
    IF random # None THEN [err |-> "none", random |-> random]
    ELSE [err |-> "AttributeError", random |-> None]

InitSampling ==
    /\ sd_seed \in Seeds
    /\ sd_gen = <<>>
    /\ sd_cache = [r \in Runs |-> None]
    /\ sd_created = [r \in Runs |-> 0]
    /\ sd_views = [r \in Runs |-> <<>>]
    /\ sd_random = [r \in Runs |-> None]
    /\ sd_records = [r \in Runs |-> <<>>]
    /\ sd_call = [r \in Runs |-> NoInitialize]
    /\ IdleButSampling

\* an access of Random.state in run r
AccessState(r) ==
    /\ Len(sd_views[r]) < MaxAccess
    /\ LET hit == Random_state(sd_cache[r])
       IN IF hit # None
          THEN /\ sd_views' = [sd_views EXCEPT ![r] = Append(@, hit)]
               /\ UNCHANGED <<sd_gen, sd_cache, sd_created>>
          ELSE /\ sd_gen' = Append(sd_gen, RandomState(sd_seed))
               /\ sd_cache' = [sd_cache EXCEPT ![r] = Len(sd_gen) + 1]
               /\ sd_created' = [sd_created EXCEPT ![r] = @ + 1]
               /\ sd_views' = [sd_views EXCEPT ![r] = Append(@, Len(sd_gen) + 1)]
    /\ UNCHANGED <<sd_seed, sd_random, sd_records, sd_call, offSampling>>

\* sampler.initialize(random) in run r, with the value of an access of
\* Random.state or with None; an exception ends the run's use of the sampler
SamplerInitialize(r) ==
    /\ ~sd_call[r].called
    /\ \E arg \in {None} \cup {sd_views[r][i] : i \in 1..Len(sd_views[r])} :
          LET out == Sampler_initialize(arg)
          IN /\ sd_random' = [sd_random EXCEPT ![r] = out.random]
             /\ sd_call' = [sd_call EXCEPT
                              ![r] = [called |-> TRUE, arg |-> arg, err |-> out.err]]
    /\ UNCHANGED <<sd_seed, sd_gen, sd_cache, sd_created, sd_views, sd_records,
                   offSampling>>

\* the sampler of run r produces its next record, from a draw of self.random
SamplerNext(r) ==
    /\ sd_random[r] # None
    /\ Len(sd_records[r]) < MaxDraws
    /\ LET g == sd_random[r]
           drawn == Draw(sd_gen[g])
       IN /\ sd_gen' = [sd_gen EXCEPT ![g] = drawn]
          /\ sd_records' = [sd_records EXCEPT ![r] = Append(@, drawn)]
    /\ UNCHANGED <<sd_seed, sd_cache, sd_created, sd_views, sd_random, sd_call,
                   offSampling>>

NextSampling ==
    \E r \in Runs : AccessState(r) \/ SamplerInitialize(r) \/ SamplerNext(r)

SpecSampling == InitSampling /\ [][NextSampling]_vars

C21_InitializeCompletes ==
    \A r \in Runs :
        sd_call[r].called =>
            /\ sd_call[r].err = "none"
            /\ sd_call[r].arg # None =>
                  (sd_random[r] = sd_call[r].arg /\ sd_created[r] = 1)
            /\ sd_call[r].arg = None =>
                  (sd_random[r] # None
                   /\ \A i \in 1..Len(sd_views[r]) : sd_views[r][i] # sd_random[r])

\* the records of the score events of a log, in order, and the optimizer steps
RECURSIVE C16_Scored(_)
C16_Scored(log) ==
    IF log = <<>> THEN <<>>
    ELSE (IF Head(log).ev = "score" THEN Head(log).records ELSE <<>>)
         \o C16_Scored(Tail(log))

C16_OptimizerSteps(log) == {i \in 1..Len(log) : log[i].ev = "optimizer_step"}

\* C16 (the claim as stated): for every batch trained with grad_acc_batch > 0, the
\* micro-batches scored, concatenated in execution order, are the batch's records
\* in order, their sizes sum to batch_size, and the optimizer step is applied
\* exactly once, after the last micro-batch.
C16_MicroBatchesMakeTheBatch ==
    (grad_acc_batch > 0 /\ ln_log # <<>>) =>
        /\ C16_Scored(ln_log) = ln_log[1].records
        /\ Len(C16_Scored(ln_log)) = batch_size
        /\ C16_OptimizerSteps(ln_log) = {Len(ln_log)}

---------------------------------------------------------------------------
(* Claims about FlopsRegularizer *)
\* the square of the sum over the rows of |x[i][j]|, summed over the columns j
C18_Num(x) ==
    LET col[j \in 1..Len(x[1])] ==
            LET rows[i \in 0..Len(x)] ==
                    IF i = 0 THEN 0
                    ELSE rows[i - 1] + (IF x[i][j] < 0 THEN -x[i][j] ELSE x[i][j])
            IN rows[Len(x)] * rows[Len(x)]
        total[j \in 0..Len(x[1])] == IF j = 0 THEN 0 ELSE total[j - 1] + col[j]
    IN total[Len(x[1])]

\* v = lambda_d * FLOPS(documents) + lambda_q * FLOPS(queries), with FLOPS(x)
\* the sum over the columns of the squared mean of |x| over the rows
C18_IsTerm(v, queries, documents) ==
    LET rq == Len(queries) * Len(queries)
        rd == Len(documents) * Len(documents)
    IN /\ v.k = "fin"
       /\ v.n * (rq * rd)
            = v.d * (lambda_d * C18_Num(documents) * rq + lambda_q * C18_Num(queries) * rd)

C18_Names(ms) == [i \in 1..Len(ms) |-> ms[i].name]

\* the last score_pairs call was made with a context and ran one hook, a
\* FlopsRegularizer
C18_OneRegularizerCall ==
    /\ sp_calls > 0
    /\ sp_args.info
    /\ Len(C3_Listeners) = 1
    /\ hooks[C3_Listeners[1]] = "flops"

\* C18: every FlopsRegularizer call is all-or-nothing on the training context:
\* with metrics present it adds exactly one loss, named flops, of weight 1.0 and
\* value lambda_d * FLOPS(documents) + lambda_q * FLOPS(queries), and exactly the
\* five metrics flops, flops_q, flops_d, sparsity_q, sparsity_d in that order;
\* with metrics absent it raises before adding any loss and leaves the context
\* as it was.
C18_AllOrNothing ==
    C18_OneRegularizerCall =>
        LET before == sp_args.before
            n == Len(before.losses)
        IN IF before.metrics_on
           THEN /\ sp_ret.kind = "ok"
                /\ Len(ctx.losses) = n + 1
                /\ SubSeq(ctx.losses, 1, n) = before.losses
                /\ ctx.losses[n + 1].name = "flops"
                /\ ctx.losses[n + 1].weight = 1
                /\ C18_IsTerm(ctx.losses[n + 1].value, sp_args.queries,
                              sp_args.documents)
                /\ Len(ctx.metrics) = Len(before.metrics) + 5
                /\ SubSeq(ctx.metrics, 1, Len(before.metrics)) = before.metrics
                /\ C18_Names(SubSeq(ctx.metrics, Len(before.metrics) + 1,
                                    Len(ctx.metrics)))
                     = <<"flops", "flops_q", "flops_d", "sparsity_q", "sparsity_d">>
           ELSE /\ sp_ret.kind \notin {"ok", "none"}
                /\ ctx = before

---------------------------------------------------------------------------
(* SpecEncode: the query and document encodings of a CosineDense or a      *)
(* DotDense, the dimensions their DenseQueryEncoder and                    *)
(* DenseDocumentEncoder adapters report, and DotDense.distribute_models.   *)
(* An encoding is recorded by the encoder that made it; an encoder object  *)
(* holds one model.                                                        *)
\* bool(x) of an encoder attribute: None is false, an encoder object true
Truthy(enc) == enc # NoTextEncoder

\* x or y
Or(x, y) == IF Truthy(x) THEN x ELSE y

\* a faulty variant: the document encoder whatever query_encoder is
Dense_query_encoder_DocumentOnly == dn_encoder

\* Dense._query_encoder: self.query_encoder or self.encoder
Dense_query_encoder == Or(dn_query_encoder, dn_encoder)

\* the encoder applied by encode_queries(texts)
Encode_queries(cls) ==
    IF cls = "CosineDense" THEN Or(dn_query_encoder, dn_encoder)
    ELSE Dense_query_encoder

\* the encoder applied by encode_documents(texts)
Encode_documents(cls) == dn_encoder

Encoding(op, enc, normalized) ==
    [op |-> op, by |-> enc.id, normalized |-> normalized, dimension |-> enc.dimension]

InitEncode ==
    /\ dn_class \in {"CosineDense", "DotDense"}
    /\ dn_encoder \in TextEncoders
    /\ dn_query_encoder \in TextEncoders \cup {NoTextEncoder}
    /\ dn_log = <<>>
    /\ dn_models = Untouched
    /\ dn_dist = "none"
    /\ IdleButEncode

\* scorer.encode_queries(texts), also as DenseQueryEncoder.forward
EncodeQueries ==
    /\ Len(dn_log) < MaxEncodes
    /\ dn_log' = Append(dn_log, Encoding("encode_queries", Encode_queries(dn_class),
                                         dn_class = "CosineDense"))
    /\ UNCHANGED <<dn_class, dn_encoder, dn_query_encoder, dn_models, dn_dist,
                   offEncode>>

\* scorer.encode_documents(texts), also as DenseDocumentEncoder.forward
EncodeDocuments ==
    /\ Len(dn_log) < MaxEncodes
    /\ dn_log' = Append(dn_log, Encoding("encode_documents",
                                         Encode_documents(dn_class),
                                         dn_class = "CosineDense"))
    /\ UNCHANGED <<dn_class, dn_encoder, dn_query_encoder, dn_models, dn_dist,
                   offEncode>>

\* DenseQueryEncoder.dimension
QueryDimension ==
    /\ Len(dn_log) < MaxEncodes
    /\ dn_log' = Append(dn_log, Encoding("query_dimension", Dense_query_encoder, FALSE))
    /\ UNCHANGED <<dn_class, dn_encoder, dn_query_encoder, dn_models, dn_dist,
                   offEncode>>

\* DenseDocumentEncoder.dimension
DocumentDimension ==
    /\ Len(dn_log) < MaxEncodes
    /\ dn_log' = Append(dn_log, Encoding("document_dimension", dn_encoder, FALSE))
    /\ UNCHANGED <<dn_class, dn_encoder, dn_query_encoder, dn_models, dn_dist,
                   offEncode>>

\* DotDense.distribute_models(update) on the models of the encoders:
\*   self.encoder.model = update(self.encoder.model)
\*   self.query_encoder.model = update(self.query_encoder.model)
\* the second line reads an attribute of None when no query_encoder is defined
DotDense_distribute_models(models) ==
    LET first == [models EXCEPT ![dn_encoder] = @ + 1]
    IN IF dn_query_encoder = NoTextEncoder
       THEN [err |-> "AttributeError", models |-> first]
       ELSE [err |-> "ok", models |-> [first EXCEPT ![dn_query_encoder] = @ + 1]]

\* the distribution hook calls scorer.distribute_models(update)
Distribute ==
    /\ dn_class = "DotDense"
    /\ dn_dist = "none"
    /\ LET out == DotDense_distribute_models(dn_models)
       IN /\ dn_models' = out.models
          /\ dn_dist' = out.err
    /\ UNCHANGED <<dn_class, dn_encoder, dn_query_encoder, dn_log, offEncode>>

NextEncode ==
    \/ EncodeQueries
    \/ EncodeDocuments
    \/ QueryDimension
    \/ DocumentDimension
    \/ Distribute

SpecEncode == InitEncode /\ [][NextEncode]_vars

\* the encoder the claim names for the queries
C19_QueryEncoder ==
    IF dn_query_encoder = NoTextEncoder THEN dn_encoder ELSE dn_query_encoder

\* C19: for CosineDense and DotDense, queries are encoded with query_encoder when
\* it is defined and with the document encoder otherwise, documents always with
\* the document encoder, and the dimension DenseQueryEncoder reports is that of
\* the encoder the queries are encoded with.
C19_EncoderSelection ==
    \A i \in 1..Len(dn_log) :
        /\ dn_log[i].op = "encode_queries" =>
              (dn_log[i].by = C19_QueryEncoder.id
               /\ dn_log[i].dimension = C19_QueryEncoder.dimension)
        /\ dn_log[i].op = "encode_documents" =>
              (dn_log[i].by = dn_encoder.id
               /\ dn_log[i].dimension = dn_encoder.dimension)
        /\ dn_log[i].op = "query_dimension" =>
              dn_log[i].dimension = C19_QueryEncoder.dimension

\* a DotDense with a query encoder of another dimension than its document
\* encoder encoded queries and its DenseQueryEncoder reported the dimension
C19_Witness ==
    /\ dn_class = "DotDense"
    /\ dn_query_encoder # NoTextEncoder
    /\ dn_query_encoder.dimension # dn_encoder.dimension
    /\ Len(dn_log) = 2
    /\ dn_log[1].op = "encode_queries"
    /\ dn_log[2].op = "query_dimension"

---------------------------------------------------------------------------
(* SpecSplade: the factories spladeV1 and spladeV2.  Both call _splade     *)
(* with positional arguments; Python binds the i-th positional argument to *)
(* the i-th parameter and gives the parameters left their defaults.        *)
SpladeValues == {0, 1, 2}

\* the parameters of _splade, in order, and their defaults (the first three
\* have none)
Splade_params ==
    <<"lambda_q", "lambda_d", "aggregation", "min_lambda_q", "min_lambda_d",
      "lamdba_warmup_steps">>
Splade_defaults == <<"required", "required", "required", 0, 0, 0>>

\* the binding of a call _splade(*positional)
Bind(positional) ==
    [name \in {Splade_params[i] : i \in 1..Len(Splade_params)} |->
        LET i == CHOOSE k \in 1..Len(Splade_params) : Splade_params[k] = name
        IN IF i <= Len(positional) THEN positional[i] ELSE Splade_defaults[i]]

SpladeTextEncoder(aggregation, maxlen) == [aggregation |-> aggregation, maxlen |-> maxlen]

\* ScheduledFlopsRegularizer(lambda_q=..., ...): the parameters as given
ScheduledFlopsRegularizer(lq, ld, mq, md, w) ==
    [lambda_q |-> lq, lambda_d |-> ld, min_lambda_q |-> mq, min_lambda_d |-> md,
     lamdba_warmup_steps |-> w]

\* _splade(*positional)
Splade(positional) ==
    LET a == Bind(positional)
    IN [scorer |-> [class |-> "DotDense",
                    encoder |-> SpladeTextEncoder(a.aggregation, 200),
                    query_encoder |-> SpladeTextEncoder(a.aggregation, 30)],
        regularizer |-> ScheduledFlopsRegularizer(a.lambda_q, a.lambda_d,
                            a.min_lambda_q, a.min_lambda_d, a.lamdba_warmup_steps)]

SpladeV1(lq, ld, w) == Splade(<<lq, ld, "SumAggregation", w>>)

SpladeV2(lq, ld, mq, md, w) == Splade(<<lq, ld, "MaxAggregation", mq, md, w>>)

InitSplade ==
    /\ sv_fn = "none"
    /\ sv_args = <<>>
    /\ sv_ret = NoPair
    /\ IdleButSplade

\* spladeV1(lambda_q, lambda_d, lamdba_warmup_steps)
CallSpladeV1 ==
    \E lq, ld, w \in SpladeValues :
        /\ sv_fn' = "spladeV1"
        /\ sv_args' = [lambda_q |-> lq, lambda_d |-> ld, lamdba_warmup_steps |-> w]
        /\ sv_ret' = SpladeV1(lq, ld, w)
        /\ UNCHANGED offSplade

\* spladeV2(lambda_q, lambda_d, min_lambda_q, min_lambda_d, lamdba_warmup_steps)
CallSpladeV2 ==
    \E lq, ld, mq, md, w \in SpladeValues :
        /\ sv_fn' = "spladeV2"
        /\ sv_args' = [lambda_q |-> lq, lambda_d |-> ld, min_lambda_q |-> mq,
                       min_lambda_d |-> md, lamdba_warmup_steps |-> w]
        /\ sv_ret' = SpladeV2(lq, ld, mq, md, w)
        /\ UNCHANGED offSplade

NextSplade == CallSpladeV1 \/ CallSpladeV2

SpecSplade == InitSplade /\ [][NextSplade]_vars

\* C20: spladeV1(lambda_q, lambda_d, lamdba_warmup_steps=w) returns a DotDense
\* using the sum aggregation and a regularizer whose lamdba_warmup_steps is w and
\* whose min_lambda_q and min_lambda_d are both 0; spladeV2 passes each of its
\* five arguments to the regularizer field of the same name.
C20_ArgumentsReachTheRegularizer ==
    /\ sv_fn = "spladeV1" =>
          /\ sv_ret.scorer.class = "DotDense"
          /\ sv_ret.scorer.encoder.aggregation = "SumAggregation"
          /\ sv_ret.scorer.query_encoder.aggregation = "SumAggregation"
          /\ sv_ret.regularizer.lamdba_warmup_steps = sv_args.lamdba_warmup_steps
          /\ sv_ret.regularizer.min_lambda_q = 0
          /\ sv_ret.regularizer.min_lambda_d = 0
    /\ sv_fn = "spladeV2" =>
          /\ sv_ret.scorer.class = "DotDense"
          /\ sv_ret.regularizer = sv_args

\* C22: DotDense.distribute_models(update) applies update exactly once to the
\* model of each distinct encoder the scorer uses and completes for every valid
\* DotDense configuration: with no query_encoder only the document encoder's
\* model is replaced, and when query_encoder is the same object as encoder its
\* model is wrapped once, not twice.
C22_EachModelUpdatedOnce ==
    dn_dist # "none" =>
        /\ dn_dist = "ok"
        /\ \A enc \in TextEncoders :
              dn_models[enc] = IF enc \in {dn_encoder, dn_query_encoder} THEN 1 ELSE 0

====
